---- MODULE Spec2Model ----
(***************************************************************************)
(* Model of setup.py of ConvPhase: the custom setuptools command           *)
(* BuildConvPhase.  A Python str is a sequence of atoms (one atom is a     *)
(* character or an unbroken run of characters); the separators the code    *)
(* splits, strips or joins on (" ", "\n", "-", ".", "/", ";") are always   *)
(* atoms of their own.  A pathlib.Path is a record [abs, segs].            *)
(***************************************************************************)
EXTENDS Integers, Sequences, FiniteSets, TLC

\* longest output of `git submodule status` that is enumerated, in atoms
MaxOut == 2

NL == "\n"

----------------------------------------------------------------------------
(* str methods *)

\* the characters str.strip() removes, as far as they occur in the model
IsSpace(c) == c \in {" ", NL}

RECURSIVE lstrip(_)
lstrip(s) == IF s # <<>> /\ IsSpace(Head(s)) THEN lstrip(Tail(s)) ELSE s

RECURSIVE rstrip(_)
rstrip(s) ==
    IF s # <<>> /\ IsSpace(s[Len(s)]) THEN rstrip(SubSeq(s, 1, Len(s) - 1)) ELSE s

strip(s) == rstrip(lstrip(s))

\* s.split(sep) for a one-atom separator: never an empty list
RECURSIVE split(_, _)
split(s, sep) ==
    IF \E i \in 1..Len(s) : s[i] = sep
    THEN LET i == CHOOSE k \in 1..Len(s) :
                      s[k] = sep /\ \A j \in 1..(k - 1) : s[j] # sep
         IN  <<SubSeq(s, 1, i - 1)>> \o split(SubSeq(s, i + 1, Len(s)), sep)
    ELSE <<s>>

\* sep.join(strs)
RECURSIVE join(_, _)
join(sep, strs) ==
    IF strs = <<>> THEN <<>>
    ELSE IF Len(strs) = 1 THEN strs[1]
    ELSE strs[1] \o sep \o join(sep, Tail(strs))

startswith(s, p) == Len(s) >= Len(p) /\ SubSeq(s, 1, Len(p)) = p

Last(s) == s[Len(s)]

Front(s) == SubSeq(s, 1, Len(s) - 1)

----------------------------------------------------------------------------
(* pathlib *)

\* Path(s): empty components collapse, Path('') is the current directory
Path(s) ==
    [abs  |-> startswith(s, <<"/">>),
     segs |-> SelectSeq(split(s, "/"), LAMBDA x : x # <<>>)]

\* p / q
PathDiv(p, q) == IF q.abs THEN q ELSE [abs |-> p.abs, segs |-> p.segs \o q.segs]

\* str(p)
PathStr(p) ==
    IF p.abs THEN <<"/">> \o join(<<"/">>, p.segs)
    ELSE IF p.segs = <<>> THEN <<".">>
    ELSE join(<<"/">>, p.segs)

\* the working directory setup.py runs in
cwd == [abs |-> TRUE, segs |-> << <<"repo">> >>]

\* p.absolute()
absolute(p) == IF p.abs THEN p ELSE PathDiv(cwd, p)

\* the directories p.mkdir(parents=True, exist_ok=True) leaves in existence
Ancestors(p) == { SubSeq(absolute(p).segs, 1, n) : n \in 0..Len(absolute(p).segs) }

----------------------------------------------------------------------------
(* the state *)

VARIABLES
    pc,              \* position of the command: Init, Finalized, SubmodulesChecked,
                     \* EnvReady, Generated, Built, Failed
    name, hxcpp_includes, python_includes, python_libs,
    build_lib, plat_name, windows, inplace,       \* the fields of the command
    environ,         \* os.environ
    host,            \* os.name of the machine the script runs on
    installed,       \* the programs that can be launched on this machine
    dirs,            \* the directories that exist (absolute, as segments)
    withFiles,       \* the directories that hold at least one file
    sys,             \* sys.exec_prefix, sys.base_exec_prefix, sysconfig values
    build,           \* the options of the finalized 'build' command
    calls,           \* every func(arg) the subprocess helper executed, in order
    raised,          \* the message of the exception that aborted the command
    msvcCalls,       \* arguments msvc14_get_vc_env was called with
    pkgDirCalls,     \* arguments build_py.get_package_dir was called with
    readBuildLib,    \* get_target_path has read self.build_lib
    target,          \* the value get_target_path returned
    gitOutput,       \* decoded output of `git submodule status`
    hxcppOutput      \* decoded output of `haxelib libpath hxcpp`

config == <<name, hxcpp_includes, python_includes, python_libs,
            build_lib, plat_name, windows, inplace>>

ambient == <<host, installed, withFiles, sys, build>>

vars == <<pc, config, environ, ambient, dirs, calls, raised, msvcCalls,
          pkgDirCalls, readBuildLib, target, gitOutput, hxcppOutput>>

\* Python's None, for the str-valued fields and results
None == <<"<None>">>

NoError == <<>>

----------------------------------------------------------------------------
(* the subprocess helper *)

AllTools == { <<"git">>, <<"haxelib">>, <<"premake5">>, <<"make">>, <<"msbuild">> }

\* The file the operating system is asked to execute by check_call(arg) and
\* check_output(arg), which are called without shell=True: the first item of
\* a list; for a str the first word where the command line is parsed by the
\* started process (nt), the whole string where it is not (posix).
Program(arg) ==
    IF arg.form = "list" THEN arg.v[1]
    ELSE IF host = "nt" THEN split(arg.v, " ")[1]
    ELSE arg.v

\* What func(arg) can do: the program cannot be started (OSError); it exits
\* with a non-zero status (CalledProcessError); it exits with 0, and for
\* check_output has written one of outputs or bytes that are not UTF-8.
Outcomes(func, arg, outputs) ==
    IF Program(arg) \notin installed
    THEN { [kind |-> "OSError", output |-> <<>>] }
    ELSE { [kind |-> "CalledProcessError", output |-> <<>>] }
         \cup { [kind |-> "ok", output |-> o] : o \in outputs }
         \cup (IF func = "check_output"
               THEN { [kind |-> "UnicodeDecodeError", output |-> <<>>] }
               ELSE {})

\* subprocess with the two except clauses raising each other's message
subprocess_swapped(func, arg, error, missing, outcome) ==
    LET command == IF arg.form = "list" THEN join(<<" ">>, arg.v) ELSE arg.v
        tool    == IF arg.form = "list" THEN arg.v[1] ELSE split(arg.v, " ")[1]
        call    == [func |-> func, arg |-> arg, command |-> command,
                    tool |-> tool, error |-> error, missing |-> missing,
                    outcome |-> outcome.kind]
    IN  CASE outcome.kind = "ok" ->
                [raised |-> FALSE, msg |-> NoError,
                 result |-> IF func = "check_output" THEN outcome.output ELSE None,
                 call |-> <<call>>]
          [] outcome.kind = "UnicodeDecodeError" ->
                [raised |-> TRUE, msg |-> <<"UnicodeDecodeError">>,
                 result |-> None, call |-> <<call>>]
          [] outcome.kind = "OSError" ->
                [raised |-> TRUE, msg |-> error, result |-> None, call |-> <<call>>]
          [] outcome.kind = "CalledProcessError" ->
                [raised |-> TRUE,
                 msg |-> IF missing # <<>> THEN missing
                         ELSE <<"Couldn't find ">> \o tool \o <<", is ">>
                              \o tool \o <<" installed?">>,
                 result |-> None, call |-> <<call>>]

\* subprocess(self, func, arg, error, missing=None) with the outcome of
\* func(arg).  A missing of None is the empty str here: `missing or ...`
\* treats the two alike.
subprocess(func, arg, error, missing, outcome) ==
    IF arg.form \notin {"list", "str"}
    THEN [raised |-> TRUE, msg |-> <<"Bad subprocess arguments">>,
          result |-> None, call |-> <<>>]
    ELSE
    LET command == IF arg.form = "list" THEN join(<<" ">>, arg.v) ELSE arg.v
        tool    == IF arg.form = "list" THEN arg.v[1] ELSE split(arg.v, " ")[1]
        call    == [func |-> func, arg |-> arg, command |-> command,
                    tool |-> tool, error |-> error, missing |-> missing,
                    outcome |-> outcome.kind]
    IN  CASE outcome.kind = "ok" ->
                [raised |-> FALSE, msg |-> NoError,
                 result |-> IF func = "check_output" THEN outcome.output ELSE None,
                 call |-> <<call>>]
          [] outcome.kind = "UnicodeDecodeError" ->
                [raised |-> TRUE, msg |-> <<"UnicodeDecodeError">>,
                 result |-> None, call |-> <<call>>]
          [] outcome.kind = "OSError" ->
                [raised |-> TRUE,
                 msg |-> IF missing # <<>> THEN missing
                         ELSE <<"Couldn't find ">> \o tool \o <<", is ">>
                              \o tool \o <<" installed?">>,
                 result |-> None, call |-> <<call>>]
          [] outcome.kind = "CalledProcessError" ->
                [raised |-> TRUE, msg |-> error, result |-> None, call |-> <<call>>]

List(v) == [form |-> "list", v |-> v]

Str(v) == [form |-> "str", v |-> v]

\* after_step with the exception swallowed, as a try/except around a step would
after_step_swallowed(exception, next) == next

\* Where the command stands after a step that was to lead to next: an
\* exception raised in a step is caught nowhere, so it leaves finalize_options
\* or run and nothing after the step is executed.
after_step(exception, next) == IF exception THEN "Failed" ELSE next

----------------------------------------------------------------------------
(* finalize_options and what it calls *)

exists(p) == absolute(p).segs \in dirs

\* any(p.iterdir()) of a directory that exists
hasEntries(p) ==
    \/ absolute(p).segs \in withFiles
    \/ \E d \in dirs : d # <<>> /\ Front(d) = absolute(p).segs

\* what `haxelib libpath hxcpp` may print
HaxelibOutputs ==
    { <<NL>>,
      <<"/", "hx", NL>>,
      <<" ", "/", "hx", NL>>,
      <<"/", "mt", NL>>,
      <<"/", "nohx", NL>> }

haxelibArg == List(<< <<"haxelib">>, <<"libpath">>, <<"hxcpp">> >>)

find_hxcpp_includes(includes, outcome) ==
    LET r == subprocess("check_output", haxelibArg,
                 <<"Couldn't find hxcpp libpath, is hxcpp installed? (haxelib install hxcpp)">>,
                 <<"Couldn't find haxelib, is haxe installed?">>, outcome)
    IN  IF r.raised
        THEN [raised |-> TRUE, msg |-> r.msg, call |-> r.call,
              output |-> None, hxcpp_includes |-> includes]
        ELSE
        LET hxcpp == strip(r.result)
            path  == PathDiv(Path(hxcpp), Path(<<"include">>))
        IN  IF ~exists(path) \/ ~hasEntries(path)
            THEN [raised |-> TRUE,
                  msg |-> <<"Bad hxcpp include: ">> \o PathStr(path),
                  call |-> r.call, output |-> r.result,
                  hxcpp_includes |-> includes]
            ELSE [raised |-> FALSE, msg |-> NoError, call |-> r.call,
                  output |-> r.result,
                  hxcpp_includes |-> Append(includes, path)]

\* a != b of two Python values, each a str or a Path: values of different
\* types are never equal
PyNe(a, b) == IF a.t # b.t THEN TRUE ELSE a.v # b.v

find_python_includes(list) ==
    LET includes1 == [t |-> "str", v |-> sys.python_inc]
        list1     == Append(list, Path(includes1.v))
        venv      == sys.exec_prefix # sys.base_exec_prefix
        includes2 == IF venv
                     THEN [t |-> "Path",
                           v |-> PathDiv(Path(sys.exec_prefix), Path(<<"include">>))]
                     ELSE includes1
        list2     == IF venv THEN Append(list1, includes2.v) ELSE list1
        plat_includes == [t |-> "str", v |-> sys.plat_python_inc]
    IN  IF PyNe(plat_includes, includes2)
        THEN Append(list2, Path(plat_includes.v))
        ELSE list2

find_python_libs(list) ==
    Append(list, PathDiv(Path(sys.base_exec_prefix), Path(<<"libs">>)))

\* set_undefined_options: a field still None takes the build command's value
set_undefined_option(own, theirs) == IF own = None THEN theirs ELSE own

finalize_options ==
    /\ pc = "Init"
    /\ build_lib' = set_undefined_option(build_lib, build.build_lib)
    /\ plat_name' = set_undefined_option(plat_name, build.plat_name)
    /\ \E outcome \in Outcomes("check_output", haxelibArg, HaxelibOutputs) :
         LET r == find_hxcpp_includes(hxcpp_includes, outcome)
         IN  /\ calls' = calls \o r.call
             /\ hxcppOutput' = r.output
             /\ hxcpp_includes' = r.hxcpp_includes
             /\ pc' = after_step(r.raised, "Finalized")
             /\ IF r.raised
                THEN /\ raised' = r.msg
                     /\ UNCHANGED <<python_includes, python_libs>>
                ELSE /\ raised' = raised
                     /\ python_includes' = find_python_includes(python_includes)
                     /\ python_libs' = find_python_libs(python_libs)
    /\ UNCHANGED <<name, windows, inplace, environ, ambient, dirs, msvcCalls,
                   pkgDirCalls, readBuildLib, target, gitOutput>>

----------------------------------------------------------------------------
(* run and its four steps *)

GitChars == {"-", " ", "a", NL}

\* what `git submodule status` may print
GitOutputs == UNION { [1..n -> GitChars] : n \in 0..MaxOut }

gitStatusArg == List(<< <<"git">>, <<"submodule">>, <<"status">> >>)

gitUpdateArg ==
    List(<< <<"git">>, <<"submodule">>, <<"update">>, <<"--init">>, <<"--recursive">> >>)

\* git_submodules_initialized without the strip() of each line
git_submodules_initialized_unstripped(output) ==
    LET submodules == split(output, NL)
    IN  ~ \E i \in 1..Len(submodules) : startswith(submodules[i], <<"-">>)

\* the loop of git_submodules_initialized over the lines of output
git_submodules_initialized(output) ==
    LET submodules == split(output, NL)
    IN  ~ \E i \in 1..Len(submodules) : startswith(strip(submodules[i]), <<"-">>)

update_git_submodules ==
    /\ pc = "Finalized"
    /\ \E o1 \in Outcomes("check_output", gitStatusArg, GitOutputs) :
         LET r1 == subprocess("check_output", gitStatusArg,
                       <<"Couldn't check git submodule status">>, <<>>, o1)
         IN  /\ gitOutput' = r1.result
             /\ IF r1.raised
                THEN /\ calls' = calls \o r1.call
                     /\ pc' = after_step(TRUE, "SubmodulesChecked")
                     /\ raised' = r1.msg
                ELSE IF git_submodules_initialized(r1.result)
                THEN /\ calls' = calls \o r1.call
                     /\ pc' = after_step(FALSE, "SubmodulesChecked")
                     /\ raised' = raised
                ELSE \E o2 \in Outcomes("check_call", gitUpdateArg, {None}) :
                       LET r2 == subprocess("check_call", gitUpdateArg,
                                     <<"Couldn't initialize git submodules">>, <<>>, o2)
                       IN  /\ calls' = calls \o r1.call \o r2.call
                           /\ pc' = after_step(r2.raised, "SubmodulesChecked")
                           /\ raised' = IF r2.raised THEN r2.msg ELSE raised
    /\ UNCHANGED <<config, environ, ambient, dirs, msvcCalls, pkgDirCalls,
                   readBuildLib, target, hxcppOutput>>

\* the prefix without its dash
WinPrefix_nodash == <<"w", "i", "n">>

WinPrefix == <<"w", "i", "n", "-">>

\* what msvc.msvc14_get_vc_env may return
MsvcEnvs ==
    { [PATH |-> "vc", VisualStudioVersion |-> "16.0"],
      [PATH |-> "vc", VisualStudioVersion |-> "17.0"],
      [PATH |-> "vc", VisualStudioVersion |-> "15.0"],
      [PATH |-> "vc"] }

\* dict.update
update(d, e) ==
    [k \in DOMAIN d \cup DOMAIN e |-> IF k \in DOMAIN e THEN e[k] ELSE d[k]]

\* set_environ storing the stripped name back into self.plat_name
set_environ_stored ==
    /\ pc = "SubmodulesChecked"
    /\ IF startswith(plat_name, WinPrefix)
       THEN LET plat == SubSeq(plat_name, Len(WinPrefix) + 1, Len(plat_name))
            IN  /\ msvcCalls' = Append(msvcCalls, plat)
                /\ plat_name' = plat
                /\ \/ \E env \in MsvcEnvs :
                        /\ environ' = update(environ, env)
                        /\ windows' = TRUE
                        /\ pc' = after_step(FALSE, "EnvReady")
                        /\ raised' = raised
                   \/ /\ pc' = after_step(TRUE, "EnvReady")
                      /\ raised' = <<"DistutilsPlatformError">>
                      /\ UNCHANGED <<environ, windows>>
       ELSE /\ pc' = after_step(FALSE, "EnvReady")
            /\ UNCHANGED <<environ, windows, msvcCalls, raised, plat_name>>
    /\ UNCHANGED <<name, hxcpp_includes, python_includes, python_libs, build_lib,
                   inplace, ambient, dirs, calls, pkgDirCalls,
                   readBuildLib, target, gitOutput, hxcppOutput>>

set_environ ==
    /\ pc = "SubmodulesChecked"
    /\ IF startswith(plat_name, WinPrefix)
       THEN LET plat == SubSeq(plat_name, Len(WinPrefix) + 1, Len(plat_name))
            IN  /\ msvcCalls' = Append(msvcCalls, plat)
                /\ \/ \E env \in MsvcEnvs :
                        /\ environ' = update(environ, env)
                        /\ windows' = TRUE
                        /\ pc' = after_step(FALSE, "EnvReady")
                        /\ raised' = raised
                   \/ \* msvc14_get_vc_env raises: no toolchain for plat
                      /\ pc' = after_step(TRUE, "EnvReady")
                      /\ raised' = <<"DistutilsPlatformError">>
                      /\ UNCHANGED <<environ, windows>>
       ELSE /\ pc' = after_step(FALSE, "EnvReady")
            /\ UNCHANGED <<environ, windows, msvcCalls, raised>>
    /\ UNCHANGED <<name, hxcpp_includes, python_includes, python_libs, build_lib,
                   plat_name, inplace, ambient, dirs, calls, pkgDirCalls,
                   readBuildLib, target, gitOutput, hxcppOutput>>

get_target_filename(n) == n \o sys.EXT_SUFFIX

\* what build_py.get_package_dir may return
PackageDirs ==
    { <<"src", "/", "itaxotools", "/", "convphase">>,
      <<"itaxotools", "/", "convphase">> }

\* target_location with build_path computed before the test of inplace
target_location_eager(package_dir) ==
    LET parts    == split(name, ".")
        filename == get_target_filename(Last(parts))
    IN  IF inplace = 0
        THEN [filename |-> filename,
              package_path |-> PathDiv(Path(build_lib),
                                       [abs |-> FALSE, segs |-> Front(parts)]),
              readBuildLib |-> TRUE,
              resolverArgs |-> <<>>]
        ELSE [filename |-> filename,
              package_path |-> Path(package_dir),
              readBuildLib |-> TRUE,
              resolverArgs |-> << join(<<".">>, Front(parts)) >>]

\* get_target_path up to the mkdir: package_dir is the resolver's answer
target_location(package_dir) ==
    LET parts    == split(name, ".")
        filename == get_target_filename(Last(parts))
    IN  IF inplace = 0
        THEN [filename |-> filename,
              package_path |-> PathDiv(Path(build_lib),
                                       [abs |-> FALSE, segs |-> Front(parts)]),
              readBuildLib |-> TRUE,
              resolverArgs |-> <<>>]
        ELSE [filename |-> filename,
              package_path |-> Path(package_dir),
              readBuildLib |-> FALSE,
              resolverArgs |-> << join(<<".">>, Front(parts)) >>]

\* the value get_target_path returns
get_target_path(loc) ==
    PathStr(absolute(PathDiv(loc.package_path,
                             [abs |-> FALSE, segs |-> <<loc.filename>>])))

\* premake_action falling back to the newest generator instead of raising
premake_action_fallback ==
    IF windows
    THEN LET version == IF "VisualStudioVersion" \in DOMAIN environ
                        THEN environ["VisualStudioVersion"] ELSE "None"
         IN  IF version = "16.0" THEN <<"vs2019">> ELSE <<"vs2022">>
    ELSE <<"gmake2">>

\* the generator action of premake, None where premake raises
premake_action ==
    IF windows
    THEN LET version == IF "VisualStudioVersion" \in DOMAIN environ
                        THEN environ["VisualStudioVersion"] ELSE "None"
         IN  IF version = "16.0" THEN <<"vs2019">>
             ELSE IF version = "17.0" THEN <<"vs2022">>
             ELSE None
    ELSE <<"gmake2">>

PathStrs(paths) == [i \in 1..Len(paths) |-> PathStr(paths[i])]

\* the command string of premake
premake_command(action, tgt) ==
    LET includes == python_includes \o hxcpp_includes
        libs     == python_libs
        c0 == <<"premake5", " ">> \o action
        c1 == IF includes # <<>>
              THEN c0 \o <<" ", "--includedirs=\"">>
                      \o join(<<";">>, PathStrs(includes)) \o <<"\"">>
              ELSE c0
        c2 == IF libs # <<>>
              THEN c1 \o <<" ", "--libdirs=\"">>
                      \o join(<<";">>, PathStrs(libs)) \o <<"\"">>
              ELSE c1
    IN  c2 \o <<" ", "--target=\"">> \o tgt \o <<"\"">>

premake ==
    /\ pc = "EnvReady"
    /\ LET action == premake_action
       IN  IF action = None
           THEN /\ pc' = after_step(TRUE, "Generated")
                /\ raised' = <<"Cannot determine Visual Studio version">>
                /\ UNCHANGED <<dirs, calls, pkgDirCalls, readBuildLib, target>>
           ELSE \E package_dir \in IF inplace = 0 THEN {None} ELSE PackageDirs :
                  LET loc == target_location(package_dir)
                  IN  /\ readBuildLib' = (readBuildLib \/ loc.readBuildLib)
                      /\ pkgDirCalls' = pkgDirCalls \o loc.resolverArgs
                      /\ \/ \* mkdir raises: no permission, or a file is in the way
                            /\ pc' = after_step(TRUE, "Generated")
                            /\ raised' = <<"OSError: mkdir">>
                            /\ UNCHANGED <<dirs, calls, target>>
                         \/ /\ dirs' = dirs \cup Ancestors(loc.package_path)
                            /\ target' = get_target_path(loc)
                            /\ LET arg == Str(premake_command(action, target'))
                               IN  \E o \in Outcomes("check_call", arg, {None}) :
                                     LET r == subprocess("check_call", arg,
                                                  <<"premake failed for action: ">> \o action,
                                                  <<>>, o)
                                     IN  /\ calls' = calls \o r.call
                                         /\ pc' = after_step(r.raised, "Generated")
                                         /\ raised' = IF r.raised THEN r.msg ELSE raised
    /\ UNCHANGED <<config, environ, ambient, msvcCalls, gitOutput, hxcppOutput>>

build_tool == IF windows THEN <<"msbuild">> ELSE <<"make">>

build_command ==
    IF windows THEN build_tool \o <<" ", "/p:Configuration=Release">> ELSE build_tool

\* A capital B: `build` is the variable holding the 'build' command's options.
Build ==
    /\ pc = "Generated"
    /\ LET arg == Str(build_command)
       IN  \E o \in Outcomes("check_call", arg, {None}) :
             LET r == subprocess("check_call", arg,
                          <<"Building with ">> \o build_tool \o <<" failed!">>,
                          <<"Couldn't find build tool: ">> \o build_tool, o)
             IN  /\ calls' = calls \o r.call
                 /\ pc' = after_step(r.raised, "Built")
                 /\ raised' = IF r.raised THEN r.msg ELSE raised
    /\ UNCHANGED <<config, environ, ambient, dirs, msvcCalls, pkgDirCalls,
                   readBuildLib, target, gitOutput, hxcppOutput>>

run == update_git_submodules \/ set_environ \/ premake \/ Build

----------------------------------------------------------------------------
(* the machine the command runs on, and the specification *)

\* (os.name, plat_name of the build command, EXT_SUFFIX).  --plat-name is
\* accepted on Windows only; elsewhere plat_name is the host's platform.
Platforms ==
    { <<"posix", <<"linux-x86_64">>, <<".so">> >>,
      <<"nt", <<"w", "i", "n", "-", "amd64">>, <<".pyd">> >>,
      <<"nt", <<"w", "i", "n", "32">>, <<".pyd">> >>,
      <<"nt", <<"linux-x86_64">>, <<".pyd">> >> }

Installations == {AllTools} \cup { AllTools \ {t} : t \in AllTools \ {<<"msbuild">>} }

BaseDirs ==
    { <<>>, << <<"repo">> >>,
      << <<"hx">> >>, << <<"hx">>, <<"include">> >>,
      << <<"mt">> >>, << <<"mt">>, <<"include">> >> }

LocalInclude == << <<"repo">>, <<"include">> >>

GenericInc == <<"/", "usr", "/", "include", "/", "python3.10">>

PlatInc == <<"/", "usr", "/", "include", "/", "x86_64", "/", "python3.10">>

\* initialize_options, the command line's --inplace, and the machine
Init ==
    /\ pc = "Init"
    /\ name = <<"itaxotools", ".", "convphase", ".", "convphase">>
    /\ hxcpp_includes = <<>>
    /\ python_includes = <<>>
    /\ python_libs = <<>>
    /\ build_lib = None
    /\ plat_name = None
    /\ windows = FALSE
    /\ inplace \in {0, 1}
    /\ environ \in { [PATH |-> "bin"],
                     [PATH |-> "bin", VisualStudioVersion |-> "16.0"] }
    /\ \E p \in Platforms :
         /\ host = p[1]
         /\ build = [build_lib |-> <<"build", "/", "lib">>, plat_name |-> p[2]]
         /\ \E venv \in {<<"/", "usr">>, <<"/", "venv">>}, pinc \in {GenericInc, PlatInc} :
              sys = [exec_prefix |-> venv, base_exec_prefix |-> <<"/", "usr">>,
                     python_inc |-> GenericInc, plat_python_inc |-> pinc,
                     EXT_SUFFIX |-> p[3]]
    /\ installed \in Installations
    /\ \E local \in BOOLEAN :
         /\ dirs = BaseDirs \cup (IF local THEN {LocalInclude} ELSE {})
         /\ withFiles = { << <<"hx">>, <<"include">> >> }
                          \cup (IF local THEN {LocalInclude} ELSE {})
    /\ calls = <<>>
    /\ raised = NoError
    /\ msvcCalls = <<>>
    /\ pkgDirCalls = <<>>
    /\ readBuildLib = FALSE
    /\ target = None
    /\ gitOutput = None
    /\ hxcppOutput = None

Next == finalize_options \/ run

Spec == Init /\ [][Next]_vars

----------------------------------------------------------------------------
(* properties *)

Step(c) ==
    CASE c.tool = <<"haxelib">> -> 0
      [] c.tool = <<"git">> -> 1
      [] c.tool = <<"premake5">> -> 3
      [] OTHER -> 4

OkCall(t) == \E i \in 1..Len(calls) : calls[i].tool = t /\ calls[i].outcome = "ok"

IsWinPlat(p) == Len(p) >= 4 /\ p[1] = "w" /\ p[2] = "i" /\ p[3] = "n" /\ p[4] = "-"

RunOrder ==
    { <<"Init", "Finalized">>, <<"Finalized", "SubmodulesChecked">>,
      <<"SubmodulesChecked", "EnvReady">>, <<"EnvReady", "Generated">>,
      <<"Generated", "Built">> }
    \cup { <<s, "Failed">> :
             s \in {"Init", "Finalized", "SubmodulesChecked", "EnvReady", "Generated"} }

C1_FailFastState ==
    /\ \A i \in 1..Len(calls) :
         calls[i].outcome # "ok" => i = Len(calls) /\ pc = "Failed"
    /\ \A i, j \in 1..Len(calls) : i < j => Step(calls[i]) < Step(calls[j])
                                            \/ (Step(calls[i]) = 1 /\ Step(calls[j]) = 1)
    /\ (pc = "Failed") = (raised # NoError)
    /\ msvcCalls # <<>> => OkCall(<<"git">>)
    /\ (\E i \in 1..Len(calls) : Step(calls[i]) = 3) =>
           /\ OkCall(<<"git">>)
           /\ IsWinPlat(plat_name) => windows /\ Len(msvcCalls) = 1
    /\ (\E i \in 1..Len(calls) : Step(calls[i]) = 4) => OkCall(<<"premake5">>)
    /\ pc = "Built" =>
           /\ OkCall(<<"git">>) /\ OkCall(<<"premake5">>)
           /\ Last(calls).outcome = "ok" /\ Step(Last(calls)) = 4
           /\ target # None

\* C1: run goes through update_git_submodules, set_environ, premake, build in
\* that order (Finalized -> SubmodulesChecked -> EnvReady -> Generated ->
\* Built); a step that raises leads to Failed, after which nothing is
\* invoked; a call that failed is the last call made; Built is reached only
\* with every step's tool having succeeded.
C1_RunOrderFailFast ==
    /\ [] C1_FailFastState
    /\ [][ /\ <<pc, pc'>> \in RunOrder
           /\ pc' = "Failed" => Len(calls') <= Len(calls) + 2 ]_vars

C1_Witness ==
    /\ pc = "Built"
    /\ Len(calls) = 5
    /\ calls[3].arg = gitUpdateArg

SomeLine(out, P(_)) == \E i \in 1..Len(split(out, NL)) : P(split(out, NL)[i])

Updates == Cardinality({ i \in 1..Len(calls) : calls[i].arg = gitUpdateArg })

\* the first atom of the line is the dash
DashFirst(line) == line # <<>> /\ line[1] = "-"

\* the first atom of the line that is not white space is the dash
DashAfterBlanks(line) ==
    \E k \in 1..Len(line) : line[k] = "-" /\ \A j \in 1..(k - 1) : line[j] \in {" ", NL}

\* C2 as stated: for every output of `git submodule status`, the update
\* command is run exactly once if a line of it starts with "-" and not at all
\* if no line does.
C2_UpdateIffLineStartsWithDash ==
    gitOutput # None =>
        Updates = (IF SomeLine(gitOutput, DashFirst) THEN 1 ELSE 0)

\* C2 amended: for every output of `git submodule status`, the update command
\* is run exactly once if on some line the first character that is not white
\* space is "-", and not at all otherwise.
C2_UpdateIffStrippedLineStartsWithDash ==
    /\ gitOutput # None =>
         Updates = (IF SomeLine(gitOutput, DashAfterBlanks) THEN 1 ELSE 0)
    /\ gitOutput = None => Updates = 0

C2_Witness ==
    /\ gitOutput = <<" ", "-">>
    /\ Updates = 1
    /\ pc = "SubmodulesChecked"

\* C3: a set_environ that returns leaves the Windows flag true exactly if
\* plat_name starts with "win-"; then the resolver was called once, with
\* plat_name less the prefix, and its result is merged into os.environ;
\* otherwise the resolver is not called and os.environ and the flag are as
\* before.
C3_SetEnviron ==
    /\ [](pc \in {"EnvReady", "Generated", "Built"} => (windows <=> IsWinPlat(plat_name)))
    /\ [](~IsWinPlat(plat_name) => msvcCalls = <<>> /\ ~windows)
    /\ [][ pc = "SubmodulesChecked" /\ pc' = "EnvReady" =>
             IF IsWinPlat(plat_name)
             THEN /\ windows'
                  /\ msvcCalls' = msvcCalls \o << SubSeq(plat_name, 5, Len(plat_name)) >>
                  /\ \E env \in MsvcEnvs :
                       /\ DOMAIN environ' = DOMAIN environ \cup DOMAIN env
                       /\ \A k \in DOMAIN env : environ'[k] = env[k]
                       /\ \A k \in DOMAIN environ \ DOMAIN env : environ'[k] = environ[k]
             ELSE /\ msvcCalls' = msvcCalls
                  /\ environ' = environ
                  /\ windows' = windows ]_vars

C3_Witness ==
    /\ pc = "EnvReady"
    /\ windows
    /\ msvcCalls = << <<"amd64">> >>
    /\ environ = [PATH |-> "vc", VisualStudioVersion |-> "16.0"]

VSVersion == IF "VisualStudioVersion" \in DOMAIN environ
             THEN environ["VisualStudioVersion"] ELSE "unset"

\* C4: with the Windows flag set, premake takes the action from
\* VisualStudioVersion: 16.0 gives vs2019, 17.0 gives vs2022, and with any
\* other value or none it raises 'Cannot determine Visual Studio version'
\* with no target path computed, no directory made and no tool invoked.
C4_VisualStudioAction ==
    [][ pc = "EnvReady" /\ windows =>
          /\ VSVersion \in {"16.0", "17.0"} =>
               /\ raised' # <<"Cannot determine Visual Studio version">>
               /\ calls' # calls =>
                    /\ Len(calls') = Len(calls) + 1
                    /\ startswith(Last(calls').command,
                                  <<"premake5", " ",
                                    IF VSVersion = "16.0" THEN "vs2019" ELSE "vs2022", " ">>)
                    /\ Last(calls').error =
                         <<"premake failed for action: ",
                           IF VSVersion = "16.0" THEN "vs2019" ELSE "vs2022">>
          /\ VSVersion \notin {"16.0", "17.0"} =>
               /\ pc' = "Failed"
               /\ raised' = <<"Cannot determine Visual Studio version">>
               /\ target' = None
               /\ UNCHANGED <<calls, dirs, pkgDirCalls, readBuildLib>> ]_vars

C4_Witness ==
    /\ pc = "Failed"
    /\ windows
    /\ VSVersion = "15.0"
    /\ raised = <<"Cannot determine Visual Studio version">>
    /\ Last(calls).tool = <<"git">>

\* C5 as stated: the generator is handed to the subprocess call as one str;
\* for a platform name that is not a Windows one, with git, premake5 and make
\* installed, the generator that is run is premake5 with action gmake2; the
\* build tool that follows is make with no arguments, or msbuild with
\* /p:Configuration=Release on Windows.
C5_GeneratorThenBuildTool ==
    /\ \A i \in 1..Len(calls) :
         calls[i].tool = <<"premake5">> =>
           /\ calls[i].arg.form = "str"
           /\ (~IsWinPlat(plat_name) /\ {<<"git">>, <<"premake5">>, <<"make">>} \subseteq installed)
                => /\ startswith(calls[i].command, <<"premake5", " ", "gmake2", " ">>)
                   /\ calls[i].outcome # "OSError"
    /\ pc = "Built" =>
         /\ Step(calls[Len(calls) - 1]) = 3
         /\ Last(calls).arg = IF windows
                              THEN Str(<<"msbuild", " ", "/p:Configuration=Release">>)
                              ELSE Str(<<"make">>)

\* C6: get_target_path reads build_lib only when not in place and calls
\* get_package_dir only when in place; the file name of the path it returns
\* is the leaf of the dotted name followed by EXT_SUFFIX, and the directory
\* that holds it exists.
C6_TargetPath ==
    /\ inplace # 0 => ~readBuildLib
    /\ inplace = 0 => pkgDirCalls = <<>>
    /\ target # None =>
         /\ Last(split(target, "/")) = <<"convphase">> \o sys.EXT_SUFFIX
         /\ target[1] = "/"
         /\ Front(Path(target).segs) \in dirs
         /\ inplace = 0 =>
              /\ readBuildLib
              /\ target = <<"/", "repo", "/", "build", "/", "lib", "/", "itaxotools",
                            "/", "convphase", "/", "convphase">> \o sys.EXT_SUFFIX
         /\ inplace # 0 => pkgDirCalls = << <<"itaxotools", ".", "convphase">> >>

C6_Witness ==
    /\ inplace = 1
    /\ target = <<"/", "repo", "/", "src", "/", "itaxotools", "/", "convphase",
                  "/", "convphase", ".so">>
    /\ << <<"repo">>, <<"src">>, <<"itaxotools">>, <<"convphase">> >> \in dirs

FirstWord(s) ==
    LET n == CHOOSE k \in 0..Len(s) :
                 /\ k = Len(s) \/ s[k + 1] = " "
                 /\ \A j \in 1..k : s[j] # " "
    IN  SubSeq(s, 1, n)

MissingMessage(c) ==
    IF c.missing # <<>> THEN c.missing
    ELSE <<"Couldn't find ">> \o FirstWord(c.command) \o <<", is ">>
         \o FirstWord(c.command) \o <<" installed?">>

\* C7: a call of the helper raises the tool-missing message (the one given,
\* else "Couldn't find <tool>, is <tool> installed?" with the first word of
\* the command) exactly if the program could not be started, and the error
\* message given exactly if it was started and exited non-zero; a failed
\* generator names the action; no command is executed twice.
C7_TwoFailureKinds ==
    \A i \in 1..Len(calls) :
        LET c == calls[i]
        IN  /\ (c.outcome = "OSError") <=>
                   (i = Len(calls) /\ pc = "Failed" /\ raised = MissingMessage(c))
            /\ (c.outcome = "CalledProcessError") <=>
                   (i = Len(calls) /\ pc = "Failed" /\ raised = c.error)
            /\ (FirstWord(c.command) = <<"premake5">> /\ c.outcome = "CalledProcessError")
                   => raised = <<"premake failed for action: ", c.command[3]>>
            /\ \A j \in 1..Len(calls) : j # i => calls[j].arg # c.arg

C7_Witness ==
    /\ pc = "Failed"
    /\ Last(calls).outcome = "OSError"
    /\ raised = <<"Couldn't find ", "premake5", ", is ", "premake5", " installed?">>

\* C8 as stated: when haxelib returns an empty path, or a path that does not
\* exist or whose include directory is missing or empty, 'Bad hxcpp include'
\* is raised and nothing is appended; a path is appended only for an existing,
\* non-empty include directory under the returned path.
C8_BadIncludeRejected ==
    hxcppOutput # None =>
        LET returned == strip(hxcppOutput)
            inc      == Path(returned).segs \o << <<"include">> >>
            good     == /\ returned # <<>>
                        /\ inc \in dirs
                        /\ inc \in withFiles \/ \E d \in dirs : d # <<>> /\ Front(d) = inc
        IN  IF good
            THEN hxcpp_includes = << [abs |-> TRUE, segs |-> inc] >>
            ELSE /\ hxcpp_includes = <<>>
                 /\ pc = "Failed"
                 /\ startswith(raised, <<"Bad hxcpp include: ">>)

\* C9 as stated: after finalize_options no step of run changes any field of
\* the build configuration.
C9_ConfigReadOnlyInRun == [][ pc # "Init" => config' = config ]_vars

\* C9 amended: after finalize_options no step of run changes any field of the
\* build configuration but the Windows flag, which only set_environ changes,
\* from false to true, for a plat_name that starts with "win-".
C9_ConfigReadOnlyButWindows ==
    [][ pc # "Init" =>
          /\ UNCHANGED <<name, hxcpp_includes, python_includes, python_libs,
                         build_lib, plat_name, inplace>>
          /\ windows' # windows =>
               /\ pc = "SubmodulesChecked" /\ pc' = "EnvReady"
               /\ windows' /\ IsWinPlat(plat_name) ]_vars

C9_Witness ==
    /\ pc = "Built"
    /\ windows
    /\ plat_name = <<"w", "i", "n", "-", "amd64">>
    /\ Len(python_includes) = 3 /\ Len(hxcpp_includes) = 1

\* C10 as stated: python_includes is the generic include directory, then
\* <exec_prefix>/include exactly if exec_prefix differs from base_exec_prefix,
\* then the platform-specific include directory exactly if it differs from
\* the generic one.
C10_PythonIncludes ==
    pc = "Finalized" =>
        python_includes =
            << Path(sys.python_inc) >>
            \o (IF sys.exec_prefix # sys.base_exec_prefix
                THEN << [abs |-> TRUE, segs |-> Path(sys.exec_prefix).segs \o << <<"include">> >>] >>
                ELSE <<>>)
            \o (IF sys.plat_python_inc # sys.python_inc
                THEN << Path(sys.plat_python_inc) >>
                ELSE <<>>)

====
